---- MODULE Spec2Model ----
(***************************************************************************)
(* Configuration manager of gpt-load: internal/config/manager.go           *)
(* (NewManager, ReloadConfig, Validate, the accessors) and the log sink    *)
(* selection of internal/utils/logger_utils.go (SetupLogger).              *)
(*                                                                         *)
(* The process environment is a function from variable names to <<>> (the  *)
(* variable is unset) or <<v>> (the variable is set to the string v, which *)
(* may be empty).  The settings file .env is a flag (it exists on disk)    *)
(* and the KEY=VALUE pairs it defines.  A nil pointer and a nil error are  *)
(* the empty sequence.                                                     *)
(***************************************************************************)
EXTENDS Integers, Sequences, FiniteSets, TLC

VARIABLES
    env,                 \* the process environment (os.Getenv / os.Setenv)
    dotenvExists,        \* the file .env exists (os.Stat)
    dotenv,              \* the variables the file .env defines
    manager,             \* the program holds a Manager (NewManager returned one)
    config,              \* Manager.config: <<>> is nil, <<c>> a *Config
    lastErr,             \* what the last ReloadConfig returned: <<>> is nil
    pc,                  \* position of the running ReloadConfig call
    caller,              \* who runs ReloadConfig: "NewManager" or "ReloadConfig"
    originalSilentMode,  \* local of ReloadConfig (line 71)
    port,                \* local of ReloadConfig (line 86)
    host,                \* local of ReloadConfig (line 94)
    envFileExists,       \* local of ReloadConfig (line 68), as the last call left it
    logOutput,           \* where logrus writes: a subset of {"console", "file"}
    loggerMode,          \* the branch the last SetupLogger took: "silent" or "normal"
    calls,               \* ReloadConfig calls started so far
    prompts,             \* ReloadConfig calls that prompted the operator
    edits                \* changes made to the environment and the file from outside

vars == <<env, dotenvExists, dotenv, manager, config, lastErr, pc, caller,
          originalSilentMode, port, host, envFileExists, logOutput, loggerMode, calls, prompts,
          edits>>

----------------------------------------------------------------------------
(* Bounds of the model *)

MaxCalls == 2
MaxEdits == 1

----------------------------------------------------------------------------
(* Names *)

RecognizedKeys ==
    {"PORT", "HOST", "SERVER_READ_TIMEOUT", "SERVER_WRITE_TIMEOUT",
     "SERVER_IDLE_TIMEOUT", "SERVER_GRACEFUL_SHUTDOWN_TIMEOUT", "IS_SLAVE",
     "AUTH_KEY", "MAX_CONCURRENT_REQUESTS", "ENABLE_CORS", "ALLOWED_ORIGINS",
     "ALLOWED_METHODS", "ALLOWED_HEADERS", "ALLOW_CREDENTIALS", "LOG_LEVEL",
     "LOG_FORMAT", "LOG_ENABLE_FILE", "LOG_FILE_PATH", "DATABASE_DSN",
     "REDIS_DSN"}

FileKeys == RecognizedKeys \cup {"TZ"}

Keys == FileKeys \cup {"SILENT_MODE"}

Unset == << >>

EmptyEnv == [k \in Keys |-> Unset]

EmptyFile == [k \in FileKeys |-> Unset]

Getenv(e, k) == IF e[k] = Unset THEN "" ELSE e[k][1]

Setenv(e, k, v) == [e EXCEPT ![k] = <<v>>]

Unsetenv(e, k) == [e EXCEPT ![k] = Unset]

----------------------------------------------------------------------------
(* Strings.  TLC's strings are atoms, so the conversions the program makes *)
(* on them are given on the strings the model uses.                        *)

\* strings.ToLower
ToLower(s) ==
    CASE s = "Y" -> "y"
      [] s = "YES" -> "yes"
      [] s = "Yes" -> "yes"
      [] s = "TRUE" -> "true"
      [] s = "False" -> "false"
      [] s = "NO" -> "no"
      [] OTHER -> s

\* The decimal numerals among the strings of the model, with their values.
NumeralValue ==
    ("0" :> 0) @@ ("5" :> 5) @@ ("7" :> 7) @@ ("10" :> 10) @@ ("20" :> 20)
    @@ ("50" :> 50) @@ ("60" :> 60) @@ ("90" :> 90) @@ ("100" :> 100)
    @@ ("120" :> 120) @@ ("300" :> 300) @@ ("600" :> 600) @@ ("3001" :> 3001)
    @@ ("8080" :> 8080) @@ ("9090" :> 9090) @@ ("65535" :> 65535)
    @@ ("65536" :> 65536) @@ ("70000" :> 70000) @@ ("-1" :> -1)

\* utils.ParseInteger: the integer raw denotes, defaultValue when raw is
\* empty or is no integer.
ParseInteger(raw, defaultValue) ==
    IF raw # "" /\ raw \in DOMAIN NumeralValue
    THEN NumeralValue[raw]
    ELSE defaultValue

\* utils.ParseBoolean: a fixed, case-insensitive set of tokens.
ParseBoolean(raw, defaultValue) ==
    IF raw = "" THEN defaultValue
    ELSE IF ToLower(raw) \in {"true", "1", "yes"} THEN TRUE
    ELSE IF ToLower(raw) \in {"false", "0", "no"} THEN FALSE
    ELSE defaultValue

\* The fields of raw between commas, each trimmed, the empty ones dropped.
CommaFields(raw) ==
    CASE raw = "" -> << >>
      [] raw = "," -> << >>
      [] raw = "GET,POST,PUT,DELETE,OPTIONS" ->
             <<"GET", "POST", "PUT", "DELETE", "OPTIONS">>
      [] raw = "GET, POST" -> <<"GET", "POST">>
      [] raw = "https://a.example, https://b.example ,," ->
             <<"https://a.example", "https://b.example">>
      [] raw = "X-Api-Key,Content-Type" -> <<"X-Api-Key", "Content-Type">>
      [] OTHER -> <<raw>>

\* utils.ParseArray
ParseArray(raw, defaultValue) ==
    IF CommaFields(raw) = << >> THEN defaultValue ELSE CommaFields(raw)

\* utils.GetEnvOrDefault
GetEnvOrDefault(e, key, defaultValue) ==
    IF Getenv(e, key) # "" THEN Getenv(e, key) ELSE defaultValue

\* strings.Join on a list of messages: the messages with sep between them.
RECURSIVE Join(_, _)
Join(list, sep) ==
    IF Len(list) = 0 THEN << >>
    ELSE IF Len(list) = 1 THEN <<list[1]>>
    ELSE <<list[1], sep>> \o Join(Tail(list), sep)

----------------------------------------------------------------------------
(* DefaultConstants *)

MinPort == 1
MaxPort == 65535
MinGracefulShutdownTimeout == 10

----------------------------------------------------------------------------
(* The aggregate ReloadConfig builds from the environment (lines 194-227) *)

LoadConfig(e) ==
    [Server |->
        [IsMaster |-> ~ParseBoolean(Getenv(e, "IS_SLAVE"), FALSE),
         Port |-> ParseInteger(Getenv(e, "PORT"), 3001),
         Host |-> GetEnvOrDefault(e, "HOST", "0.0.0.0"),
         ReadTimeout |-> ParseInteger(Getenv(e, "SERVER_READ_TIMEOUT"), 60),
         WriteTimeout |-> ParseInteger(Getenv(e, "SERVER_WRITE_TIMEOUT"), 600),
         IdleTimeout |-> ParseInteger(Getenv(e, "SERVER_IDLE_TIMEOUT"), 120),
         GracefulShutdownTimeout |->
             ParseInteger(Getenv(e, "SERVER_GRACEFUL_SHUTDOWN_TIMEOUT"), 10)],
     Auth |-> [Key |-> Getenv(e, "AUTH_KEY")],
     CORS |->
        [Enabled |-> ParseBoolean(Getenv(e, "ENABLE_CORS"), TRUE),
         AllowedOrigins |-> ParseArray(Getenv(e, "ALLOWED_ORIGINS"), <<"*">>),
         AllowedMethods |->
             ParseArray(Getenv(e, "ALLOWED_METHODS"),
                        <<"GET", "POST", "PUT", "DELETE", "OPTIONS">>),
         AllowedHeaders |-> ParseArray(Getenv(e, "ALLOWED_HEADERS"), <<"*">>),
         AllowCredentials |-> ParseBoolean(Getenv(e, "ALLOW_CREDENTIALS"), FALSE)],
     Performance |->
        [MaxConcurrentRequests |->
             ParseInteger(Getenv(e, "MAX_CONCURRENT_REQUESTS"), 100)],
     Log |->
        [Level |-> GetEnvOrDefault(e, "LOG_LEVEL", "info"),
         Format |-> GetEnvOrDefault(e, "LOG_FORMAT", "text"),
         EnableFile |-> ParseBoolean(Getenv(e, "LOG_ENABLE_FILE"), FALSE),
         FilePath |-> GetEnvOrDefault(e, "LOG_FILE_PATH", "./data/logs/app.log")],
     Database |-> [DSN |-> GetEnvOrDefault(e, "DATABASE_DSN", "./data/gpt-load.db")],
     RedisDSN |-> Getenv(e, "REDIS_DSN")]

----------------------------------------------------------------------------
(* Manager.Validate (lines 279-311) *)

PortMessage == "port must be between 1-65535"
ConcurrencyMessage == "max concurrent requests cannot be less than 1"
AuthKeyMessage == "AUTH_KEY is required and cannot be empty"

\* A faulty variant: Validate stops at the first violated rule.
ValidationErrorsFailFast(c) ==
    IF c.Server.Port < MinPort \/ c.Server.Port > MaxPort THEN <<PortMessage>>
    ELSE IF c.Performance.MaxConcurrentRequests < 1 THEN <<ConcurrencyMessage>>
    ELSE IF c.Auth.Key = "" THEN <<AuthKeyMessage>>
    ELSE << >>

\* The messages Validate appends to validationErrors, in the order it appends.
ValidationErrors(c) ==
    (IF c.Server.Port < MinPort \/ c.Server.Port > MaxPort
     THEN <<PortMessage>> ELSE << >>)
    \o (IF c.Performance.MaxConcurrentRequests < 1
        THEN <<ConcurrencyMessage>> ELSE << >>)
    \o (IF c.Auth.Key = "" THEN <<AuthKeyMessage>> ELSE << >>)

\* A faulty variant: a timeout that is too short is kept.
KeepGracefulShutdownTimeout(c) == c

\* The reset of a graceful shutdown timeout that is too short.
ResetGracefulShutdownTimeout(c) ==
    IF c.Server.GracefulShutdownTimeout < MinGracefulShutdownTimeout
    THEN [c EXCEPT !.Server.GracefulShutdownTimeout = MinGracefulShutdownTimeout]
    ELSE c

\* Validate on the aggregate c: the aggregate it leaves in m.config and the
\* error it returns (<< >> is nil).
Validate(c) ==
    [config |-> ResetGracefulShutdownTimeout(c),
     err |-> IF Len(ValidationErrors(c)) > 0
             THEN Join(ValidationErrors(c), "; ")
             ELSE << >>]

----------------------------------------------------------------------------
(* The accessors (lines 238-276); they are read once a Manager holds a     *)
(* snapshot.                                                               *)

GetEffectiveServerConfig == config[1].Server
GetAuthConfig == config[1].Auth
GetCORSConfig == config[1].CORS
GetPerformanceConfig == config[1].Performance
GetLogConfig == config[1].Log
GetDatabaseConfig == config[1].Database
GetRedisDSN == config[1].RedisDSN

----------------------------------------------------------------------------
(* The settings file *)

\* What the template of lines 109-151 defines once godotenv has read it back:
\* the three values asked for, and the fixed lines (the two DSN lines are
\* comments).
TemplateFile(p, h, a) ==
    [k \in FileKeys |->
        CASE k = "PORT" -> <<p>>
          [] k = "HOST" -> <<h>>
          [] k = "AUTH_KEY" -> <<a>>
          [] k = "SERVER_READ_TIMEOUT" -> <<"60">>
          [] k = "SERVER_WRITE_TIMEOUT" -> <<"600">>
          [] k = "SERVER_IDLE_TIMEOUT" -> <<"120">>
          [] k = "SERVER_GRACEFUL_SHUTDOWN_TIMEOUT" -> <<"10">>
          [] k = "IS_SLAVE" -> <<"false">>
          [] k = "TZ" -> <<"Asia/Shanghai">>
          [] k = "MAX_CONCURRENT_REQUESTS" -> <<"100">>
          [] k = "ENABLE_CORS" -> <<"true">>
          [] k = "ALLOWED_ORIGINS" -> <<"*">>
          [] k = "ALLOWED_METHODS" -> <<"GET,POST,PUT,DELETE,OPTIONS">>
          [] k = "ALLOWED_HEADERS" -> <<"*">>
          [] k = "ALLOW_CREDENTIALS" -> <<"false">>
          [] k = "LOG_LEVEL" -> <<"info">>
          [] k = "LOG_FORMAT" -> <<"text">>
          [] k = "LOG_ENABLE_FILE" -> <<"true">>
          [] k = "LOG_FILE_PATH" -> <<"./data/logs/app.log">>
          [] OTHER -> Unset]

\* A faulty variant: the file's variables replace those of the environment
\* (godotenv.Overload).
Overload(e, exists, f) ==
    IF ~exists THEN e
    ELSE [k \in Keys |-> IF k \in FileKeys /\ f[k] # Unset THEN f[k] ELSE e[k]]

\* godotenv.Load (line 177): every variable the file defines and the
\* environment does not hold is set; a variable the environment holds, even
\* with an empty value, is kept.  Without a file nothing is loaded and the
\* error is dropped.
Load(e, exists, f) ==
    IF ~exists THEN e
    ELSE [k \in Keys |->
             IF e[k] = Unset /\ k \in FileKeys /\ f[k] # Unset THEN f[k] ELSE e[k]]

\* A faulty variant: the three defaults are set whatever the environment holds.
SetDefaultsAlways(e) ==
    Setenv(Setenv(Setenv(e, "PORT", "3001"), "HOST", "0.0.0.0"),
           "AUTH_KEY", "sk-123456")

\* The defaults of lines 182-193, set when envFileExists is false.
SetDefaults(e) ==
    LET e1 == IF Getenv(e, "PORT") = "" THEN Setenv(e, "PORT", "3001") ELSE e
        e2 == IF Getenv(e1, "HOST") = "" THEN Setenv(e1, "HOST", "0.0.0.0") ELSE e1
    IN  IF Getenv(e2, "AUTH_KEY") = "" THEN Setenv(e2, "AUTH_KEY", "sk-123456") ELSE e2

\* A faulty variant: SILENT_MODE is unset on the way out, whatever it was.
ForgetSilentMode(e, original) == Unsetenv(e, "SILENT_MODE")

\* Lines 165-170: SILENT_MODE gets back the value read at line 71.
RestoreSilentMode(e, original) ==
    IF original = "" THEN Unsetenv(e, "SILENT_MODE")
    ELSE Setenv(e, "SILENT_MODE", original)

\* A faulty variant: the defaults are set with a settings file too.
LoadedEnvWithDefaults(e, exists, f, fileExists) == SetDefaults(Load(e, exists, f))

\* A faulty variant: the defaults are never set.
LoadedEnvWithoutDefaults(e, exists, f, fileExists) == Load(e, exists, f)

\* The environment ReloadConfig reads the aggregate from (lines 176-193).
LoadedEnv(e, exists, f, fileExists) ==
    IF fileExists THEN Load(e, exists, f) ELSE SetDefaults(Load(e, exists, f))

----------------------------------------------------------------------------
(* Inputs *)

\* What the operator may type at the prompts.
Responses == {"y", "YES", "n", ""}
PortInputs == {"", "8080", "70000"}
HostInputs == {"", "127.0.0.1"}
AuthKeyInputs == {"", "secret"}

\* The values a variable is given from outside, in the environment.
EnvValues(k) ==
    CASE k = "PORT" -> {"8080", "70000", "abc", ""}
      [] k = "HOST" -> {"127.0.0.1"}
      [] k = "AUTH_KEY" -> {"secret", ""}
      [] k = "MAX_CONCURRENT_REQUESTS" -> {"50", "0"}
      [] k = "SERVER_GRACEFUL_SHUTDOWN_TIMEOUT" -> {"5", "20"}
      [] k = "SERVER_READ_TIMEOUT" -> {"90"}
      [] k = "SERVER_WRITE_TIMEOUT" -> {"300"}
      [] k = "SERVER_IDLE_TIMEOUT" -> {"abc"}
      [] k = "IS_SLAVE" -> {"TRUE"}
      [] k = "ENABLE_CORS" -> {"no"}
      [] k = "ALLOWED_ORIGINS" -> {"https://a.example, https://b.example ,,"}
      [] k = "ALLOWED_METHODS" -> {"GET, POST"}
      [] k = "ALLOWED_HEADERS" -> {","}
      [] k = "ALLOW_CREDENTIALS" -> {"1"}
      [] k = "LOG_LEVEL" -> {"debug"}
      [] k = "LOG_FORMAT" -> {"json"}
      [] k = "LOG_ENABLE_FILE" -> {"true", "maybe"}
      [] k = "LOG_FILE_PATH" -> {"/var/log/gpt-load.log"}
      [] k = "DATABASE_DSN" -> {"postgres://db/gpt-load"}
      [] k = "REDIS_DSN" -> {"redis://redis:6379/0"}
      [] k = "SILENT_MODE" -> {"true", "false", ""}
      [] OTHER -> {"UTC"}

\* The values a variable is given in the settings file.
FileValues(k) ==
    CASE k = "PORT" -> {"9090", "65536"}
      [] k = "HOST" -> {"localhost"}
      [] k = "AUTH_KEY" -> {"filekey", ""}
      [] k = "MAX_CONCURRENT_REQUESTS" -> {"7", "-1"}
      [] k = "SERVER_GRACEFUL_SHUTDOWN_TIMEOUT" -> {"7"}
      [] k = "SERVER_READ_TIMEOUT" -> {"120"}
      [] k = "SERVER_WRITE_TIMEOUT" -> {"60"}
      [] k = "SERVER_IDLE_TIMEOUT" -> {"300"}
      [] k = "IS_SLAVE" -> {"yes"}
      [] k = "ENABLE_CORS" -> {"False"}
      [] k = "ALLOWED_ORIGINS" -> {"https://c.example"}
      [] k = "ALLOWED_METHODS" -> {"GET"}
      [] k = "ALLOWED_HEADERS" -> {"X-Api-Key,Content-Type"}
      [] k = "ALLOW_CREDENTIALS" -> {"true"}
      [] k = "LOG_LEVEL" -> {"warn"}
      [] k = "LOG_FORMAT" -> {"xml"}
      [] k = "LOG_ENABLE_FILE" -> {"true"}
      [] k = "LOG_FILE_PATH" -> {"./app.log"}
      [] k = "DATABASE_DSN" -> {"root@tcp(mysql:3306)/gpt-load"}
      [] k = "REDIS_DSN" -> {"redis://cache:6379/1"}
      [] OTHER -> {"Asia/Shanghai"}

----------------------------------------------------------------------------
(* The initial state: no Manager yet, logrus writes to the console, the    *)
(* settings file is missing, or empty, or the operator's.                  *)

\* A settings file an operator wrote: every recognized key but REDIS_DSN.
OperatorFile ==
    [k \in FileKeys |->
        CASE k = "PORT" -> <<"9090">>
          [] k = "AUTH_KEY" -> <<"filekey">>
          [] k = "MAX_CONCURRENT_REQUESTS" -> <<"7">>
          [] k = "REDIS_DSN" -> Unset
          [] OTHER -> <<CHOOSE v \in FileValues(k) : TRUE>>]

Init ==
    /\ env = EmptyEnv
    /\ \/ dotenvExists = FALSE /\ dotenv = EmptyFile
       \/ dotenvExists = TRUE /\ dotenv \in {EmptyFile, OperatorFile}
    /\ manager = FALSE
    /\ config = << >>
    /\ lastErr = << >>
    /\ pc = "idle"
    /\ caller = "NewManager"
    /\ originalSilentMode = ""
    /\ port = ""
    /\ host = ""
    /\ envFileExists = FALSE
    /\ logOutput = {"console"}
    /\ loggerMode = "none"
    /\ calls = 0
    /\ prompts = 0
    /\ edits = 0

----------------------------------------------------------------------------
(* ReloadConfig (lines 66-236) *)

\* Lines 176-236: load the file, set the defaults, build the aggregate, store
\* it in m.config, validate it and return.  NewManager keeps the Manager only
\* when the error is nil (lines 59-62).
Finish(who, e, exists, f, fileExists) ==
    LET loaded == LoadedEnv(e, exists, f, fileExists)
        v == Validate(LoadConfig(loaded))
    IN  /\ env' = loaded
        /\ envFileExists' = fileExists
        /\ config' = <<v.config>>
        /\ lastErr' = v.err
        /\ manager' = IF who = "NewManager" THEN v.err = << >> ELSE manager
        /\ pc' = "idle"

\* A faulty variant: the call does not look for the settings file and always asks.
EnterAlwaysPrompts(who) ==
    /\ pc = "idle"
    /\ calls < MaxCalls
    /\ calls' = calls + 1
    /\ caller' = who
    /\ originalSilentMode' = Getenv(env, "SILENT_MODE")
    /\ env' = Setenv(env, "SILENT_MODE", "true")
    /\ pc' = "PromptCreate"
    /\ prompts' = prompts + 1
    /\ config' = IF who = "NewManager" THEN << >> ELSE config
    /\ UNCHANGED <<dotenvExists, dotenv, manager, lastErr, envFileExists,
                   logOutput, loggerMode, edits, port, host>>

\* Lines 66-74 and 171-174: the call starts.  Without a settings file it
\* saves SILENT_MODE, sets it to "true" and asks whether to create the file;
\* with one it goes on to load it.
Enter(who) ==
    /\ pc = "idle"
    /\ calls < MaxCalls
    /\ calls' = calls + 1
    /\ caller' = who
    /\ UNCHANGED <<logOutput, loggerMode, edits, port, host>>
    /\ IF ~dotenvExists
       THEN /\ originalSilentMode' = Getenv(env, "SILENT_MODE")
            /\ env' = Setenv(env, "SILENT_MODE", "true")
            /\ pc' = "PromptCreate"
            /\ prompts' = prompts + 1
            /\ config' = IF who = "NewManager" THEN << >> ELSE config
            /\ UNCHANGED <<dotenvExists, dotenv, manager, lastErr, envFileExists>>
       ELSE /\ Finish(who, env, dotenvExists, dotenv, TRUE)
            /\ UNCHANGED <<dotenvExists, dotenv, originalSilentMode, prompts>>

\* NewManager (lines 55-63) on a fresh Manager.
NewManager ==
    /\ ~manager
    /\ Enter("NewManager")

\* ReloadConfig on the Manager the program holds.
ReloadConfig ==
    /\ manager
    /\ Enter("ReloadConfig")

\* Lines 76-80 and 160-170: the answer to "create a .env file?".  Anything
\* but y or yes leaves the bootstrap without a file.
AnswerCreate ==
    /\ pc = "PromptCreate"
    /\ \E response \in Responses :
          IF ToLower(response) = "y" \/ ToLower(response) = "yes"
          THEN /\ pc' = "CollectPort"
               /\ UNCHANGED <<env, dotenvExists, dotenv, manager, config, lastErr,
                              envFileExists>>
          ELSE /\ Finish(caller, RestoreSilentMode(env, originalSilentMode),
                         dotenvExists, dotenv, FALSE)
               /\ UNCHANGED <<dotenvExists, dotenv>>
    /\ UNCHANGED <<caller, originalSilentMode, port, host, logOutput, loggerMode,
                   calls, prompts, edits>>

\* Lines 85-90
CollectPort ==
    /\ pc = "CollectPort"
    /\ \E input \in PortInputs : port' = IF input = "" THEN "3001" ELSE input
    /\ pc' = "CollectHost"
    /\ UNCHANGED <<env, dotenvExists, dotenv, manager, config, lastErr, caller,
                   originalSilentMode, host, envFileExists, logOutput, loggerMode,
                   calls, prompts, edits>>

\* Lines 93-98
CollectHost ==
    /\ pc = "CollectHost"
    /\ \E input \in HostInputs : host' = IF input = "" THEN "0.0.0.0" ELSE input
    /\ pc' = "CollectAuthKey"
    /\ UNCHANGED <<env, dotenvExists, dotenv, manager, config, lastErr, caller,
                   originalSilentMode, port, envFileExists, logOutput, loggerMode,
                   calls, prompts, edits>>

\* Lines 101-170: the key is read, the file is written (os.WriteFile may
\* fail, and then there is no file), SILENT_MODE is restored and the call
\* goes on to load the file.
CollectAuthKey ==
    /\ pc = "CollectAuthKey"
    /\ \E input \in AuthKeyInputs, written \in BOOLEAN :
          LET authKey == IF input = "" THEN "sk-123456" ELSE input
          IN  /\ dotenvExists' = written
              /\ dotenv' = IF written THEN TemplateFile(port, host, authKey) ELSE dotenv
              /\ Finish(caller, RestoreSilentMode(env, originalSilentMode),
                        dotenvExists', dotenv', written)
    /\ UNCHANGED <<caller, originalSilentMode, port, host, logOutput, loggerMode,
                   calls, prompts, edits>>

----------------------------------------------------------------------------
(* SetupLogger (logger_utils.go, lines 35-70): the sink logrus is given.   *)
(* Creating the directory and opening the file may each fail.              *)

SinkAfterSetup(output, silent, enableFile, mkdirOk, openOk) ==
    IF silent = "true"
    THEN IF enableFile
         THEN IF mkdirOk /\ openOk THEN {"file"} ELSE output
         ELSE {}
    ELSE IF enableFile
         THEN IF mkdirOk /\ openOk THEN {"console", "file"} ELSE output
         ELSE output

SetupLogger ==
    /\ pc = "idle"
    /\ manager
    /\ \E mkdirOk \in BOOLEAN, openOk \in BOOLEAN :
          logOutput' = SinkAfterSetup(logOutput, Getenv(env, "SILENT_MODE"),
                                      GetLogConfig.EnableFile, mkdirOk, openOk)
    /\ loggerMode' = IF Getenv(env, "SILENT_MODE") = "true" THEN "silent" ELSE "normal"
    /\ UNCHANGED <<env, dotenvExists, dotenv, manager, config, lastErr, pc, caller,
                   originalSilentMode, port, host, envFileExists, calls, prompts,
                   edits>>

----------------------------------------------------------------------------
(* The surroundings: the program sets a variable (as main does with        *)
(* SILENT_MODE before it builds the Manager), the operator edits the       *)
(* settings file.                                                          *)

OsSetenv ==
    /\ pc = "idle"
    /\ edits < MaxEdits
    /\ \E k \in Keys \ {"TZ"} : \E v \in EnvValues(k) : env' = Setenv(env, k, v)
    /\ edits' = edits + 1
    /\ UNCHANGED <<dotenvExists, dotenv, manager, config, lastErr, pc, caller,
                   originalSilentMode, port, host, envFileExists, logOutput, loggerMode,
                   calls, prompts>>

EditFile ==
    /\ pc = "idle"
    /\ dotenvExists
    /\ edits < MaxEdits
    /\ \E k \in RecognizedKeys : \E v \in FileValues(k) :
          dotenv' = [dotenv EXCEPT ![k] = <<v>>]
    /\ edits' = edits + 1
    /\ UNCHANGED <<env, dotenvExists, manager, config, lastErr, pc, caller,
                   originalSilentMode, port, host, envFileExists, logOutput, loggerMode,
                   calls, prompts>>

Next ==
    \/ NewManager
    \/ ReloadConfig
    \/ AnswerCreate
    \/ CollectPort
    \/ CollectHost
    \/ CollectAuthKey
    \/ SetupLogger
    \/ OsSetenv
    \/ EditFile

Spec == Init /\ [][Next]_vars

----------------------------------------------------------------------------
(* Properties *)

\* A ReloadConfig call returns in this step.  The environment of the step's
\* first state holds every recognized variable as the call found it: while a
\* call waits at a prompt nothing but the call itself runs.
Returned == pc' = "idle" /\ (pc # "idle" \/ calls' # calls)

\* The messages of an error.
Messages(err) == {err[i] : i \in 1..Len(err)}

PortOutOfRange(c) == c.Server.Port \notin MinPort..MaxPort
TooFewConcurrentRequests(c) == c.Performance.MaxConcurrentRequests < 1
EmptyAuthKey(c) == c.Auth.Key = ""

\* C1: when a ReloadConfig call on a Manager returns a validation failure, the
\* snapshot the accessors read after the call is the snapshot that was active
\* before it.
C1_FailedReloadKeepsSnapshot ==
    [][(Returned /\ caller' = "ReloadConfig" /\ lastErr' # << >>)
          => config' = config]_vars

\* C2: after Validate has returned, with an error or without,
\* Server.GracefulShutdownTimeout is at least 10; a value below 10 has become
\* 10, and the error reports nothing but the three rules: it is nil when the
\* three hold.
C2_GracefulShutdownFloor ==
    [][Returned =>
          LET raw == ParseInteger(Getenv(env', "SERVER_GRACEFUL_SHUTDOWN_TIMEOUT"), 10)
              c == config'[1]
          IN  /\ c.Server.GracefulShutdownTimeout >= 10
              /\ raw < 10 => c.Server.GracefulShutdownTimeout = 10
              /\ Messages(lastErr') \subseteq
                    {PortMessage, ConcurrencyMessage, AuthKeyMessage, "; "}
              /\ (~PortOutOfRange(c) /\ ~TooFewConcurrentRequests(c) /\ ~EmptyAuthKey(c))
                    => lastErr' = << >>]_vars

\* C2, its case: the file gave a timeout of 7, the snapshot holds 10 and the
\* call succeeded.
C2_Witness ==
    /\ pc = "idle"
    /\ config # << >>
    /\ env["SERVER_GRACEFUL_SHUTDOWN_TIMEOUT"] = <<"7">>
    /\ config[1].Server.GracefulShutdownTimeout = 10
    /\ lastErr = << >>

\* C3: what Validate returns for each of the eight combinations of violated
\* rules: nil when none is violated, else one error with the message of every
\* violated rule and of no other, joined by "; " in the order port,
\* concurrent requests, auth key.
ExpectedError(p, r, k) ==
    CASE ~p /\ ~r /\ ~k -> << >>
      [] p /\ ~r /\ ~k -> <<PortMessage>>
      [] ~p /\ r /\ ~k -> <<ConcurrencyMessage>>
      [] ~p /\ ~r /\ k -> <<AuthKeyMessage>>
      [] p /\ r /\ ~k -> <<PortMessage, "; ", ConcurrencyMessage>>
      [] p /\ ~r /\ k -> <<PortMessage, "; ", AuthKeyMessage>>
      [] ~p /\ r /\ k -> <<ConcurrencyMessage, "; ", AuthKeyMessage>>
      [] p /\ r /\ k ->
             <<PortMessage, "; ", ConcurrencyMessage, "; ", AuthKeyMessage>>

C3_AllViolationsReported ==
    config # << >> =>
        lastErr = ExpectedError(PortOutOfRange(config[1]),
                                TooFewConcurrentRequests(config[1]),
                                EmptyAuthKey(config[1]))

\* C3, its case: no auth key and MAX_CONCURRENT_REQUESTS=0 give one error with
\* both messages.
C3_Witness ==
    /\ pc = "idle"
    /\ config # << >>
    /\ GetPerformanceConfig.MaxConcurrentRequests = 0
    /\ GetAuthConfig.Key = ""
    /\ lastErr = <<ConcurrencyMessage, "; ", AuthKeyMessage>>

\* The variables the bootstrap defaults when it ends without a file, and their
\* defaults.
RequiredKeys == {"PORT", "HOST", "AUTH_KEY"}

RequiredDefault(k) ==
    CASE k = "PORT" -> "3001"
      [] k = "HOST" -> "0.0.0.0"
      [] k = "AUTH_KEY" -> "sk-123456"

\* The field of the aggregate c that the variable k is read into (IS_SLAVE is
\* held negated, as IsMaster).
FieldOf(c, k) ==
    CASE k = "PORT" -> c.Server.Port
      [] k = "HOST" -> c.Server.Host
      [] k = "SERVER_READ_TIMEOUT" -> c.Server.ReadTimeout
      [] k = "SERVER_WRITE_TIMEOUT" -> c.Server.WriteTimeout
      [] k = "SERVER_IDLE_TIMEOUT" -> c.Server.IdleTimeout
      [] k = "SERVER_GRACEFUL_SHUTDOWN_TIMEOUT" -> c.Server.GracefulShutdownTimeout
      [] k = "IS_SLAVE" -> ~c.Server.IsMaster
      [] k = "AUTH_KEY" -> c.Auth.Key
      [] k = "MAX_CONCURRENT_REQUESTS" -> c.Performance.MaxConcurrentRequests
      [] k = "ENABLE_CORS" -> c.CORS.Enabled
      [] k = "ALLOWED_ORIGINS" -> c.CORS.AllowedOrigins
      [] k = "ALLOWED_METHODS" -> c.CORS.AllowedMethods
      [] k = "ALLOWED_HEADERS" -> c.CORS.AllowedHeaders
      [] k = "ALLOW_CREDENTIALS" -> c.CORS.AllowCredentials
      [] k = "LOG_LEVEL" -> c.Log.Level
      [] k = "LOG_FORMAT" -> c.Log.Format
      [] k = "LOG_ENABLE_FILE" -> c.Log.EnableFile
      [] k = "LOG_FILE_PATH" -> c.Log.FilePath
      [] k = "DATABASE_DSN" -> c.Database.DSN
      [] k = "REDIS_DSN" -> c.RedisDSN

\* The documented default of each recognized key, as the value of its field.
DocumentedDefault(k) ==
    CASE k = "PORT" -> 3001
      [] k = "HOST" -> "0.0.0.0"
      [] k = "SERVER_READ_TIMEOUT" -> 60
      [] k = "SERVER_WRITE_TIMEOUT" -> 600
      [] k = "SERVER_IDLE_TIMEOUT" -> 120
      [] k = "SERVER_GRACEFUL_SHUTDOWN_TIMEOUT" -> 10
      [] k = "IS_SLAVE" -> FALSE
      [] k = "AUTH_KEY" -> "sk-123456"
      [] k = "MAX_CONCURRENT_REQUESTS" -> 100
      [] k = "ENABLE_CORS" -> TRUE
      [] k = "ALLOWED_ORIGINS" -> <<"*">>
      [] k = "ALLOWED_METHODS" -> <<"GET", "POST", "PUT", "DELETE", "OPTIONS">>
      [] k = "ALLOWED_HEADERS" -> <<"*">>
      [] k = "ALLOW_CREDENTIALS" -> FALSE
      [] k = "LOG_LEVEL" -> "info"
      [] k = "LOG_FORMAT" -> "text"
      [] k = "LOG_ENABLE_FILE" -> FALSE
      [] k = "LOG_FILE_PATH" -> "./data/logs/app.log"
      [] k = "DATABASE_DSN" -> "./data/gpt-load.db"
      [] k = "REDIS_DSN" -> ""

\* C4: when the bootstrap ends without a file (the operator declined, or the
\* write failed), the call has written no file, does not fail for the lack of
\* one (no complaint about the auth key, and none about the port unless the
\* environment gave a port), and each of PORT, HOST and AUTH_KEY that the
\* environment held with a value (os.Getenv gives a non-empty string) is left
\* as it was and is what the snapshot shows, each other one has its default.
C4_DefaultsOnlyWhenAbsent ==
    [][(Returned /\ pc # "idle" /\ ~envFileExists') =>
          /\ ~dotenvExists'
          /\ dotenv' = dotenv
          /\ AuthKeyMessage \notin Messages(lastErr')
          /\ Getenv(env, "PORT") = "" => PortMessage \notin Messages(lastErr')
          /\ \A k \in RequiredKeys :
                IF Getenv(env, k) # ""
                THEN /\ env'[k] = env[k]
                     /\ FieldOf(config'[1], k) = FieldOf(LoadConfig(env), k)
                ELSE /\ env'[k] = <<RequiredDefault(k)>>
                     /\ FieldOf(config'[1], k) = DocumentedDefault(k)]_vars

\* C4, its case: the write failed (a port was collected, and there is no
\* file); PORT=8080 of the environment is kept and shown, HOST and AUTH_KEY
\* have their defaults.
C4_Witness ==
    /\ pc = "idle"
    /\ calls > 0
    /\ port # ""
    /\ ~dotenvExists
    /\ ~envFileExists
    /\ env["PORT"] = <<"8080">>
    /\ GetEffectiveServerConfig.Port = 8080
    /\ GetEffectiveServerConfig.Host = "0.0.0.0"
    /\ GetAuthConfig.Key = "sk-123456"
    /\ lastErr = << >>

\* C5: a call that finds the settings file, with AUTH_KEY neither defined in
\* the file nor held with a value by the environment, returns a validation
\* failure that mentions AUTH_KEY, and the snapshot's key is empty.
C5_NoDefaultKeyWithFile ==
    [][(Returned /\ pc = "idle" /\ dotenvExists
           /\ dotenv["AUTH_KEY"] = Unset /\ Getenv(env, "AUTH_KEY") = "")
          => /\ lastErr' # << >>
             /\ AuthKeyMessage \in Messages(lastErr')
             /\ config'[1].Auth.Key = ""]_vars

\* C5, its case: the file exists and does not define AUTH_KEY, the environment
\* does not hold it, and the call has failed on it.
C5_Witness ==
    /\ pc = "idle"
    /\ calls > 0
    /\ dotenvExists
    /\ dotenv["AUTH_KEY"] = Unset
    /\ env["AUTH_KEY"] = Unset
    /\ AuthKeyMessage \in Messages(lastErr)

C7_PromptedAtMostOnce == prompts <= 1

\* C7, amended: the operator is prompted only as a ReloadConfig call starts
\* and finds no settings file, once in that call; every call that finds no
\* settings file prompts, so a later call prompts again while the file is
\* still missing.
C7_PromptedOncePerCallWithoutFile ==
    [][/\ prompts' # prompts =>
             /\ prompts' = prompts + 1
             /\ calls' = calls + 1
             /\ ~dotenvExists
             /\ pc' = "PromptCreate"
       /\ (calls' = calls + 1 /\ ~dotenvExists) => prompts' = prompts + 1
       /\ pc' # "idle" => ~dotenvExists']_vars

\* C7, its case: two calls, each of which prompted the operator.
C7_Witness ==
    /\ pc = "idle"
    /\ calls = 2
    /\ prompts = 2

\* C8: once SetupLogger has run with SILENT_MODE set to "true", whatever
\* became of the log directory and the log file, logrus does not write to the
\* console: it writes to the file, or nowhere.
C8_SilentNeverConsole ==
    loggerMode = "silent" => "console" \notin logOutput

\* C9: for every recognized key that the environment holds as a call starts
\* and that the settings file the call loads defines, the variable is left as
\* it was and the snapshot's field is what the environment's value gives.
C9_EnvironmentWinsOverFile ==
    [][(Returned /\ dotenvExists') =>
          LET fromEnv == Validate(LoadConfig(env)).config
          IN  \A k \in RecognizedKeys :
                 (env[k] # Unset /\ dotenv'[k] # Unset) =>
                    /\ env'[k] = env[k]
                    /\ FieldOf(config'[1], k) = FieldOf(fromEnv, k)]_vars

\* C9, its case: the file defines PORT=70000, the environment held PORT=8080,
\* and the snapshot's port is 8080.
C9_Witness ==
    /\ pc = "idle"
    /\ dotenvExists
    /\ dotenv["PORT"] = <<"70000">>
    /\ env["PORT"] = <<"8080">>
    /\ config # << >>
    /\ GetEffectiveServerConfig.Port = 8080
    /\ lastErr = << >>

\* C10 as stated: on every path through ReloadConfig, a recognized key that
\* neither the environment nor the settings file holds has its documented
\* default in the snapshot.
C10_EveryKeyHasDefault ==
    [][Returned =>
          \A k \in RecognizedKeys :
             (env[k] = Unset /\ (dotenvExists' => dotenv'[k] = Unset)) =>
                FieldOf(config'[1], k) = DocumentedDefault(k)]_vars

\* C10, amended: that holds of every recognized key but AUTH_KEY; AUTH_KEY has
\* the default sk-123456 only when the call ends without a settings file, and
\* with a settings file the snapshot's key is empty and the call returns a
\* validation failure that mentions AUTH_KEY.
C10_DefaultsExceptAuthKey ==
    [][Returned =>
          \A k \in RecognizedKeys :
             (env[k] = Unset /\ (dotenvExists' => dotenv'[k] = Unset)) =>
                IF k # "AUTH_KEY" \/ ~envFileExists'
                THEN FieldOf(config'[1], k) = DocumentedDefault(k)
                ELSE /\ FieldOf(config'[1], k) = ""
                     /\ AuthKeyMessage \in Messages(lastErr')]_vars

\* C10, its case: a call found a settings file that defines neither PORT nor
\* AUTH_KEY, the environment held neither; the snapshot has port 3001 and an
\* empty key.
C10_Witness ==
    /\ pc = "idle"
    /\ calls > 0
    /\ envFileExists
    /\ dotenv["PORT"] = Unset /\ dotenv["AUTH_KEY"] = Unset
    /\ env["PORT"] = Unset /\ env["AUTH_KEY"] = Unset
    /\ GetEffectiveServerConfig.Port = 3001
    /\ GetAuthConfig.Key = ""
    /\ lastErr # << >>

====
